---- MODULE Spec2Model ----
(***************************************************************************)
(* The diabetes risk application: the SQLite store of src/app1.py          *)
(* (DatabaseManager) and of src/auth/auth.py, the Streamlit session of     *)
(* src/app1.py (main, show_auth_page, show_sidebar_navigation,             *)
(* show_prediction_page, show_history_page) and the risk formulas.         *)
(*                                                                         *)
(* Text values are sequences of one-character strings, so that len(), the  *)
(* emptiness test and split("@") are computed and not assumed.             *)
(* Fractions are exact: a risk score s is held as the integer              *)
(* s * ScoreScale, ScoreScale being a common denominator of every term.    *)
(***************************************************************************)
EXTENDS Integers, Sequences, FiniteSets, TLC

VARIABLES
    users,          \* table users: sequence of rows, in insertion order
    analyses,       \* table analyses: sequence of rows, in insertion order
    user_seq,       \* sqlite_sequence of users (AUTOINCREMENT)
    analysis_seq,   \* sqlite_sequence of analyses (AUTOINCREMENT)
    now,            \* datetime.now(), in ticks
    call,           \* the database call of the last step, if it made one
    ret,            \* what that call returned
    session,        \* st.session_state: a function from its keys to values
    view,           \* what the last run of main() rendered
    event,          \* the widget event the last script run handled
    form,           \* the widgets of the individual form (tab 1)
    uploaded_file,  \* the file held by st.file_uploader (tab 2)
    evaluation,     \* what tab 1 shows in the last run: nothing, or a result
    batch,          \* what tab 2 shows in the last run: nothing, or an outcome
    evaluated,      \* history: the user_ids that have run an evaluation
    model_file,     \* modeldiabete3.pkl as the file system holds it
    script          \* the module-level steps the last script run executed

dbvars == <<users, analyses, user_seq, analysis_seq>>

(***************************************************************************)
(* Bounds and input sets                                                   *)
(***************************************************************************)
MaxTime == 1
MaxAnalyses == 1

Usernames == { <<"a">>, <<"b">> }
Passwords == { <<"s","e","c","r","e","t">>, <<"S","e","c","r","e","t">> }
\* The (username, password, email) triples add_user is called with.
NewUsers ==
    { << <<"a">>, <<"s","e","c","r","e","t">>, <<"a","@","b",".","c">> >>,
      << <<"a">>, <<"S","e","c","r","e","t">>, <<"x","@","y",".","z">> >>,
      << <<"b">>, <<"s","e","c","r","e","t">>, <<"a","@","b",".","c">> >> }
UserIds   == 1..2
AnalysisTypes == { "Individuelle" }
Probabilities == { 50 }     \* hundredths

(***************************************************************************)
(* Return values                                                           *)
(***************************************************************************)
RetTrue   == [tag |-> "True"]
RetFalse  == [tag |-> "False"]
RetNone   == [tag |-> "None"]
RetRaised == [tag |-> "raised"]
RetRow(id, username) == [tag |-> "row", id |-> id, username |-> username]
RetId(id) == [tag |-> "id", id |-> id]
RetFrame(rows) == [tag |-> "DataFrame", rows |-> rows]

NoCall == [op |-> "none"]

(***************************************************************************)
(* Schema: users(id INTEGER PRIMARY KEY AUTOINCREMENT, username TEXT       *)
(* UNIQUE, password, email, created_at)                                    *)
(***************************************************************************)
\* The UNIQUE constraint switched off: what a schema without it would do.
UniqueViolation_none(username) == FALSE

\* username TEXT UNIQUE: an INSERT of a username already present raises
\* sqlite3.IntegrityError.
UniqueViolation(username) ==
    \E i \in 1..Len(users) : users[i].username = username

\* The row that INSERT INTO users (username, password, email, created_at)
\* VALUES (?, ?, ?, ?) writes: the password parameter goes into the column
\* as it was passed in.
UserRow(username, password, email) ==
    [id |-> user_seq + 1, username |-> username,
     password |-> password, email |-> email, created_at |-> now]

\* INSERT OR REPLACE instead of INSERT: not the code.
InsertUser_replace(username, password, email) ==
    /\ users' = IF UniqueViolation(username)
                THEN [i \in 1..Len(users) |->
                        IF users[i].username = username
                        THEN [UserRow(username, password, email)
                                 EXCEPT !.id = users[i].id]
                        ELSE users[i]]
                ELSE Append(users, UserRow(username, password, email))
    /\ user_seq' = IF UniqueViolation(username) THEN user_seq ELSE user_seq + 1
    /\ ret' = RetTrue

\* c.execute("INSERT INTO users ..."); conn.commit(); return True, and the
\* except sqlite3.IntegrityError branch that returns False.
InsertUser(username, password, email) ==
    IF UniqueViolation(username)
    THEN /\ ret' = RetFalse
         /\ UNCHANGED <<users, user_seq>>
    ELSE /\ users' = Append(users, UserRow(username, password, email))
         /\ user_seq' = user_seq + 1
         /\ ret' = RetTrue

\* add_user without its `except sqlite3.Error` branch: not the code.
add_user_uncaught(username, password, email, fail) ==
    /\ IF fail
       THEN /\ ret' = RetRaised
            /\ UNCHANGED <<users, user_seq>>
       ELSE InsertUser(username, password, email)
    /\ UNCHANGED <<analyses, analysis_seq>>

\* DatabaseManager.add_user. fail: the SQLite call raises a sqlite3.Error
\* that is no IntegrityError (database locked, disk I/O error, ...).
add_user(username, password, email, fail) ==
    /\ IF fail
       THEN /\ ret' = RetFalse
            /\ UNCHANGED <<users, user_seq>>
       ELSE InsertUser(username, password, email)
    /\ UNCHANGED <<analyses, analysis_seq>>

\* add_user of src/auth/auth.py: only IntegrityError is caught, any other
\* sqlite3.Error leaves the function as an exception.
auth_add_user(username, password, email, fail) ==
    /\ IF fail
       THEN /\ ret' = RetRaised
            /\ UNCHANGED <<users, user_seq>>
       ELSE InsertUser(username, password, email)
    /\ UNCHANGED <<analyses, analysis_seq>>

\* A WHERE clause that compares the username alone: not the code.
MatchingUsers_nopw(username, password) ==
    { i \in 1..Len(users) : users[i].username = username }

\* SELECT ... FROM users WHERE username=? AND password=?
MatchingUsers(username, password) ==
    { i \in 1..Len(users) :
        users[i].username = username /\ users[i].password = password }

\* c.fetchone(): the first row of the result, in rowid order, or None.
FetchOne(matches) ==
    IF matches = {} THEN 0
    ELSE CHOOSE i \in matches : \A j \in matches : i <= j

\* DatabaseManager.verify_user: returns (id, username) or None.
verify_user_result(username, password, fail) ==
    IF fail THEN RetNone
    ELSE LET i == FetchOne(MatchingUsers(username, password))
         IN  IF i = 0 THEN RetNone
             ELSE RetRow(users[i].id, users[i].username)

verify_user(username, password, fail) ==
    /\ ret' = verify_user_result(username, password, fail)
    /\ UNCHANGED dbvars

\* verify_user of src/auth/auth.py: returns the id or None, no try/except.
auth_verify_user(username, password, fail) ==
    /\ ret' = IF fail THEN RetRaised
              ELSE LET i == FetchOne(MatchingUsers(username, password))
                   IN  IF i = 0 THEN RetNone ELSE RetId(users[i].id)
    /\ UNCHANGED dbvars

(***************************************************************************)
(* Schema: analyses(id, user_id, analysis_type, parameters, result,        *)
(* probability, created_at, FOREIGN KEY(user_id) REFERENCES users(id)).    *)
(* No connection executes PRAGMA foreign_keys = ON, and SQLite does not    *)
(* enforce foreign keys without it.                                        *)
(***************************************************************************)
\* FOREIGN KEY(user_id) REFERENCES users(id), as SQLite treats it on a
\* connection that never turned foreign_keys on: never a violation.
ForeignKeyViolation(user_id) == FALSE

AnalysisRow(user_id, analysis_type, probability) ==
    [id |-> analysis_seq + 1, user_id |-> user_id,
     analysis_type |-> analysis_type, probability |-> probability,
     created_at |-> now]

\* DatabaseManager.add_analysis
add_analysis(user_id, analysis_type, probability, fail) ==
    /\ IF fail \/ ForeignKeyViolation(user_id)
       THEN /\ ret' = RetFalse
            /\ UNCHANGED <<analyses, analysis_seq>>
       ELSE /\ analyses' = Append(analyses,
                               AnalysisRow(user_id, analysis_type, probability))
            /\ analysis_seq' = analysis_seq + 1
            /\ ret' = RetTrue
    /\ UNCHANGED <<users, user_seq>>

\* add_analysis of src/auth/auth.py: returns None, no try/except.
auth_add_analysis(user_id, analysis_type, probability, fail) ==
    /\ IF fail \/ ForeignKeyViolation(user_id)
       THEN /\ ret' = RetRaised
            /\ UNCHANGED <<analyses, analysis_seq>>
       ELSE /\ analyses' = Append(analyses,
                               AnalysisRow(user_id, analysis_type, probability))
            /\ analysis_seq' = analysis_seq + 1
            /\ ret' = RetNone
    /\ UNCHANGED <<users, user_seq>>

\* SELECT * FROM analyses, without the WHERE clause: not the code.
AnalysesOf_all(user_id) ==
    analyses

\* SELECT * FROM analyses WHERE user_id=?
AnalysesOf(user_id) ==
    SelectSeq(analyses, LAMBDA r : r.user_id = user_id)

\* ORDER BY created_at DESC: every order of the selected rows in which
\* created_at never increases (SQLite leaves the order of equal keys open).
OrderByCreatedAtDesc(rows) ==
    LET n == Len(rows)
        Perms == { f \in [1..n -> 1..n] : \A i, j \in 1..n : i # j => f[i] # f[j] }
    IN  { [i \in 1..n |-> rows[f[i]]] : f \in
            { g \in Perms : \A i, j \in 1..n :
                i < j => rows[g[i]].created_at >= rows[g[j]].created_at } }

\* DatabaseManager.get_user_analyses: the rows as a DataFrame, or an empty
\* DataFrame when the query raises.
get_user_analyses(user_id, fail) ==
    /\ IF fail
       THEN ret' = RetFrame(<< >>)
       ELSE \E rows \in OrderByCreatedAtDesc(AnalysesOf(user_id)) :
                ret' = RetFrame(rows)
    /\ UNCHANGED dbvars

\* get_user_analyses of src/auth/auth.py: no try/except.
auth_get_user_analyses(user_id, fail) ==
    /\ IF fail
       THEN ret' = RetRaised
       ELSE \E rows \in OrderByCreatedAtDesc(AnalysesOf(user_id)) :
                ret' = RetFrame(rows)
    /\ UNCHANGED dbvars

(***************************************************************************)
(* Risk formulas of show_prediction_page.  A patient is a record of the    *)
(* numbers of the form; BMI is held in tenths and WHR in hundredths.       *)
(***************************************************************************)
\* Scores are held as score * ScoreScale: 6000 is the least common
\* denominator of /100, /50 (of tenths), /300, /200, /400, /500 and /2 (of
\* hundredths); /5 and the two multipliers in tenths give 6000 * 5 * 100.
ScoreScale == 6000 * 5 * 100

\* (age/100 + bmi/50 + glucose/300 + bloodPressure/200 + ldl/400 - hdl/200
\*  + triglycerides/500 + waist_hip_ratio/2), times 6000
WeightedSum(p) ==
    60 * p.Age + 12 * p.BMI10 + 20 * p.Glucose + 30 * p.BloodPressure
    + 15 * p.LDL - 30 * p.HDL + 12 * p.Triglycerides + 30 * p.WHR100

\* (1.2 if family_history == "Oui" else 1), in tenths
FamilyFactor(family_history) == IF family_history = "Oui" THEN 12 ELSE 10

\* (1.3 if medications == "Oui" else 1), in tenths
MedicationFactor(medications) == IF medications = "Oui" THEN 13 ELSE 10

Max(a, b) == IF a >= b THEN a ELSE b
Min(a, b) == IF a <= b THEN a ELSE b

\* 0.95 * ScoreScale
Cap == 95 * (ScoreScale \div 100)

\* round(x, k) and np.round(x, k) of the float nearest to the exact
\* quotient n / d, counted in units of 10^-k: the nearest unit; when n / d
\* lies exactly between two units the float lies a little to one side or the
\* other, and either neighbour can come out.
RoundNearest(n, d) ==
    LET q == n \div d
        r == n % d
    IN  IF 2 * r < d THEN {q}
        ELSE IF 2 * r > d THEN {q + 1}
        ELSE {q, q + 1}

\* The product of the individual formula with no clamp at all: not the code.
risk_score_unclamped(f) ==
    WeightedSum(f) * FamilyFactor(f.family_history)
                   * MedicationFactor(f.medications)

\* The clamp applied to the weighted sum and the multipliers applied to the
\* clamped value: not the code.
risk_score_clamp_first(f) ==
    Min(Max(WeightedSum(f), 0), Cap \div 100)
    * (FamilyFactor(f.family_history) * MedicationFactor(f.medications))

\* risk_score = min(max(sum / 5 * (1.2 ...) * (1.3 ...), 0), 0.95), times
\* ScoreScale
risk_score(f) ==
    Min(Max(WeightedSum(f) * FamilyFactor(f.family_history)
                           * MedicationFactor(f.medications), 0), Cap)

\* estimer_temps: the second definition of the module (line 1167) replaces
\* the first (line 327) before any page is rendered.  p times ScoreScale.
estimer_temps(p) ==
    IF      p * 10 < 2 * ScoreScale THEN "plus de 10 ans"
    ELSE IF p * 10 < 5 * ScoreScale THEN "entre 5 et 10 ans"
    ELSE IF p * 10 < 8 * ScoreScale THEN "entre 3 et 5 ans"
    ELSE "moins de 3 ans"

\* The recommendation block of the individual result.
Recommendation(score) ==
    IF      score * 10 < 4 * ScoreScale THEN "faible"
    ELSE IF score * 10 < 7 * ScoreScale THEN "modere"
    ELSE "eleve"

\* "Échelle de risque" of the documentation page: the class of a score.
echelle_de_risque(score) ==
    IF      score * 10 < 2 * ScoreScale THEN "Risque très faible"
    ELSE IF score * 10 < 4 * ScoreScale THEN "Risque faible"
    ELSE IF score * 10 < 6 * ScoreScale THEN "Risque modéré"
    ELSE IF score * 10 < 8 * ScoreScale THEN "Risque élevé"
    ELSE "Risque très élevé"

NoEvaluation == [shown |-> FALSE]

\* risk_percentage = round(risk_score * 100, 1), in tenths of a percent: the
\* set of the values the rounding can give.
risk_percentage(score) == RoundNearest(score, ScoreScale \div 1000)

\* The body of `if st.button("Evaluer le risque")`: the result block, for
\* each value the rounding of the percentage can give.
Evaluation(f) ==
    { [shown |-> TRUE, inputs |-> f, risk_score |-> risk_score(f),
       risk_percentage |-> p,
       time_estimation |-> estimer_temps(risk_score(f)),
       recommendation |-> Recommendation(risk_score(f))] :
      p \in risk_percentage(risk_score(f)) }

DefaultForm ==
    [Age |-> 45, Pregnancies |-> 0, BMI10 |-> 250, Glucose |-> 100,
     BloodPressure |-> 80, LDL |-> 100, HDL |-> 50, Triglycerides |-> 150,
     WHR100 |-> 80, family_history |-> "Non", medications |-> "Non"]

(***************************************************************************)
(* Batch analysis (tab 2).  A DataFrame is its column names, in order, and *)
(* its rows, each a tuple of numbers aligned with the columns.             *)
(***************************************************************************)
required_columns ==
    << "Age", "Pregnancies", "BMI", "Glucose", "BloodPressure", "LDL", "HDL",
       "Triglycerides", "WHR", "FamilyHistory", "MedicationUse" >>

\* The column names the uploader's help text announces.
help_columns ==
    << "Âge", "Nombre de grossesses", "IMC", "Glucose sanguin",
       "Pression artérielle", "LDL", "HDL", "Triglycérides",
       "Ratio Taille/Hanche", "Antécédents familiaux", "Médicaments" >>

\* column_mapping: help_columns[i] |-> required_columns[i]
column_mapping(name) ==
    IF \E i \in 1..Len(help_columns) : help_columns[i] = name
    THEN required_columns[CHOOSE i \in 1..Len(help_columns) :
                              help_columns[i] = name]
    ELSE name

Range(seq) == { seq[i] : i \in 1..Len(seq) }

NoFile == [present |-> FALSE]

\* pd.read_csv(uploaded_file)
read_csv(file) == [columns |-> file.columns, rows |-> file.rows]

\* df.rename(columns=column_mapping)
rename(df) ==
    [df EXCEPT !.columns = [i \in 1..Len(df.columns) |->
                               column_mapping(df.columns[i])]]

\* df[name] at row r: the cell of the column called name.
Cell(df, name, r) ==
    df.rows[r][CHOOSE i \in 1..Len(df.columns) : df.columns[i] = name]

\* The weighted sum of row r, as WeightedSum computes it for the form.
RowSum(df, r) ==
    WeightedSum([Age |-> Cell(df, "Age", r), BMI10 |-> Cell(df, "BMI", r),
                 Glucose |-> Cell(df, "Glucose", r),
                 BloodPressure |-> Cell(df, "BloodPressure", r),
                 LDL |-> Cell(df, "LDL", r), HDL |-> Cell(df, "HDL", r),
                 Triglycerides |-> Cell(df, "Triglycerides", r),
                 WHR100 |-> Cell(df, "WHR", r)])

\* df['Probabilité'] at row r, in hundredths: np.round(sum / 5
\*  * (1.2 if FamilyHistory == 1 else 1) * (1.3 if MedicationUse == 1 else 1), 2).
\* The set of the values the rounding can give.
Probabilite(df, r) ==
    RoundNearest(
        RowSum(df, r)
        * (IF Cell(df, "FamilyHistory", r) = 1 THEN 12 ELSE 10)
        * (IF Cell(df, "MedicationUse", r) = 1 THEN 13 ELSE 10),
        ScoreScale \div 100)

\* pd.cut(p, bins=[0, 0.4, 0.7, 1], labels=['Faible', 'Modéré', 'Élevé']):
\* the intervals (0, 0.4], (0.4, 0.7], (0.7, 1]; NaN outside them.
NiveauDeRisque(p100) ==
    IF      p100 > 0  /\ p100 <= 40  THEN "Faible"
    ELSE IF p100 > 40 /\ p100 <= 70  THEN "Modéré"
    ELSE IF p100 > 70 /\ p100 <= 100 THEN "Élevé"
    ELSE "NaN"

\* missing_columns = [col for col in required_columns if col not in df.columns]
missing_columns(df) ==
    SelectSeq(required_columns, LAMBDA col : col \notin Range(df.columns))

NoBatch == [status |-> "none"]

\* Whether the file passes the required-column check and is scored.
BatchScored(file) ==
    file.present /\ missing_columns(read_csv(file)) = << >>

\* The body of `if uploaded_file is not None`: the check of the required
\* columns on the file's own names, then the renaming, then the scores.
\* The set of the outcomes the run can show.
BatchAnalysis(file) ==
    IF ~file.present THEN {NoBatch}
    ELSE LET df == read_csv(file)
         IN  IF missing_columns(df) # << >>
             THEN {[status |-> "missing_columns", missing |-> missing_columns(df)]}
             ELSE LET d == rename(df)
                      n == Len(d.rows)
                      all == UNION { Probabilite(d, r) : r \in 1..n }
                  IN  { [status |-> "scored",
                         columns |-> d.columns \o
                             << "Probabilité", "Niveau de risque", "Estimation temps" >>,
                         Probabilite |-> P,
                         Niveau |-> [r \in 1..n |-> NiveauDeRisque(P[r])],
                         Estimation |-> [r \in 1..n |->
                             estimer_temps(P[r] * (ScoreScale \div 100))]] :
                        P \in { Q \in [1..n -> all] :
                                  \A r \in 1..n : Q[r] \in Probabilite(d, r) } }

(***************************************************************************)
(* Session state and page routing (main, show_auth_page,                   *)
(* show_sidebar_navigation).  One action is one widget event: the script   *)
(* run that handles it and, when the handler calls st.rerun(), the run     *)
(* that st.rerun() starts at once in its place.                            *)
(***************************************************************************)
EmptySession == [k \in {} |-> TRUE]

\* modeldiabete3.pkl: absent, or a file of some size that joblib.load
\* deserializes or not.
MissingModelFile == [exists |-> FALSE]

ModelFiles ==
    {MissingModelFile} \cup
    [exists : {TRUE}, size : {0, 99, 100, 4096}, unpickles : BOOLEAN]

GoodModelFile == [exists |-> TRUE, size |-> 4096, unpickles |-> TRUE]

\* _load_model without the test of the file size: not the code.
load_model_unsized(file) ==
    IF ~file.exists THEN "stopped"
    ELSE IF ~file.unpickles THEN "stopped"
    ELSE "loaded"

\* DiabePredictModel._load_model: st.stop() when the file does not exist,
\* when it is smaller than 100 bytes, and (in the except branch) when
\* joblib.load raises; st.stop() itself is no Exception and passes the
\* except branch.
load_model(file) ==
    IF ~file.exists THEN "stopped"
    ELSE IF file.size < 100 THEN "stopped"
    ELSE IF ~file.unpickles THEN "stopped"
    ELSE "loaded"

\* The module-level statements of a run, in the order of the file:
\* db_manager = DatabaseManager() (line 228), predict_model =
\* DiabePredictModel() (line 325), main() (line 1538); st.stop() in
\* _load_model ends the run before main().
run_script(file) ==
    << "db_manager = DatabaseManager()", "predict_model = DiabePredictModel()",
       IF load_model(file) = "loaded" THEN "main()" ELSE "st.stop()" >>

\* What a run that st.stop() ended in _load_model leaves on screen: the
\* error message, no sidebar and no page.
StoppedView == [sidebar |-> FALSE, page |-> "stopped", history |-> << >>]

Pages == { "Accueil", "Prédiction", "Historique", "Documentation", "À propos" }

\* st.session_state.get('current_page', 'Accueil')
current_page(s) ==
    IF "current_page" \in DOMAIN s THEN s["current_page"] ELSE "Accueil"

\* main() without its authentication test: not the code.
main_ungated(s) ==
    [sidebar |-> TRUE, page |-> current_page(s)]

\* main(): what a run renders on session state s.  The authentication page
\* alone unless s['authenticated'] is present and true; otherwise the sidebar
\* and the page current_page names.
main(s) ==
    IF "authenticated" \notin DOMAIN s \/ ~s["authenticated"]
    THEN [sidebar |-> FALSE, page |-> "auth"]
    ELSE [sidebar |-> TRUE,
          page |-> IF current_page(s) \in Pages THEN current_page(s)
                   ELSE "blank"]

\* The login form without its test of the two fields: not the code.
login_fields_missing_never(username, password) == FALSE

\* if not username or not password
login_fields_missing(username, password) ==
    username = << >> \/ password = << >>

\* An update that leaves out 'username': not the code.
login_update_no_username(s, user_data) ==
    [k \in DOMAIN s \cup {"user_id", "authenticated", "current_page"} |->
        IF      k = "user_id"       THEN user_data.id
        ELSE IF k = "authenticated" THEN TRUE
        ELSE IF k = "current_page"  THEN "Accueil"
        ELSE s[k]]

\* st.session_state.update({'user_id': ..., 'username': ...,
\*   'authenticated': True, 'current_page': "Accueil"})
login_update(s, user_data) ==
    [k \in DOMAIN s \cup {"user_id", "username", "authenticated", "current_page"} |->
        IF      k = "user_id"       THEN user_data.id
        ELSE IF k = "username"      THEN user_data.username
        ELSE IF k = "authenticated" THEN TRUE
        ELSE IF k = "current_page"  THEN "Accueil"
        ELSE s[k]]

\* st.session_state['current_page'] = page
set_page(s, page) ==
    [k \in DOMAIN s \cup {"current_page"} |->
        IF k = "current_page" THEN page ELSE s[k]]

\* A logout that deletes 'username' and 'current_page' only: not the code.
delete_keys_partial(s) ==
    [k \in DOMAIN s \ {"username", "current_page"} |-> s[k]]

\* for key in list(st.session_state.keys()): del st.session_state[key]
delete_keys(s) ==
    [k \in DOMAIN s \ DOMAIN s |-> s[k]]

\* text.split("@")[1]: the part between the first "@" and the next one, or
\* the end.  Defined when text holds an "@".
SplitAt1(text) ==
    LET first == CHOOSE i \in 1..Len(text) :
                    text[i] = "@" /\ \A j \in 1..(i - 1) : text[j] # "@"
        later == { i \in (first + 1)..Len(text) : text[i] = "@" }
        stop  == IF later = {} THEN Len(text) + 1
                 ELSE CHOOSE i \in later : \A j \in later : i <= j
    IN  SubSeq(text, first + 1, stop - 1)

\* The validation chain with the length test before the comparison of the
\* two passwords: not the code.
register_check_length_first(f) ==
    IF f.new_user = << >> \/ f.new_pass = << >> \/ f.confirm_pass = << >>
       \/ f.new_email = << >>
    THEN "Veuillez remplir tous les champs"
    ELSE IF Len(f.new_pass) < 6
    THEN "Le mot de passe doit contenir au moins 6 caractères"
    ELSE IF f.new_pass # f.confirm_pass
    THEN "Les mots de passe ne correspondent pas"
    ELSE IF "@" \notin Range(f.new_email) \/ "." \notin Range(SplitAt1(f.new_email))
    THEN "Veuillez entrer une adresse email valide"
    ELSE "ok"

\* The validation chain of the registration form: the first failing test
\* names the error, "ok" when none fails.
register_check(f) ==
    IF f.new_user = << >> \/ f.new_pass = << >> \/ f.confirm_pass = << >>
       \/ f.new_email = << >>
    THEN "Veuillez remplir tous les champs"
    ELSE IF f.new_pass # f.confirm_pass
    THEN "Les mots de passe ne correspondent pas"
    ELSE IF Len(f.new_pass) < 6
    THEN "Le mot de passe doit contenir au moins 6 caractères"
    ELSE IF "@" \notin Range(f.new_email) \/ "." \notin Range(SplitAt1(f.new_email))
    THEN "Veuillez entrer une adresse email valide"
    ELSE "ok"

\* What a run shows on tabs 1 and 2 of the Prédiction page, and the widget
\* state it keeps; on any other page the widgets are not rendered and their
\* state is dropped.
PredictionTabs(s, f, u, clicked) ==
    IF main(s).page = "Prédiction"
    THEN /\ form' = f
         /\ uploaded_file' = u
         /\ evaluation' \in IF clicked THEN Evaluation(f) ELSE {NoEvaluation}
         /\ batch' \in BatchAnalysis(u)
         /\ evaluated' = IF clicked \/ BatchScored(u)
                         THEN evaluated \cup {s["user_id"]}
                         ELSE evaluated
    ELSE /\ form' = DefaultForm
         /\ uploaded_file' = NoFile
         /\ evaluation' = NoEvaluation
         /\ batch' = NoBatch
         /\ UNCHANGED evaluated

\* show_history_page: the rows get_user_analyses returned, or the message
\* "Aucune analyse enregistrée pour le moment." when the DataFrame is empty.
\* A run of any other page calls no database function.
PageQuery(s, fail) ==
    IF main(s).page = "Historique"
    THEN /\ get_user_analyses(s["user_id"], fail)
         /\ call' = [op |-> "get_user_analyses", user_id |-> s["user_id"],
                     fail |-> fail]
    ELSE /\ ret' = RetNone
         /\ call' = NoCall
         /\ UNCHANGED dbvars

\* The page a run on session state s renders, with the history table.  The
\* run reaches main() only when predict_model = DiabePredictModel() has not
\* stopped it.
Render(s) ==
    /\ load_model(model_file) = "loaded"
    /\ script' = run_script(model_file)
    /\ UNCHANGED model_file
    /\ session' = s
    /\ view' = [sidebar |-> main(s).sidebar, page |-> main(s).page,
                history |-> IF main(s).page = "Historique" THEN ret'.rows
                            ELSE << >>]

(***************************************************************************)
(* Inputs of the session actions                                           *)
(***************************************************************************)
PwA == <<"s","e","c","r","e","t">>
PwB == <<"S","e","c","r","e","t">>
MailOk == <<"a","@","b",".","c">>

LoginUsernames == { << >>, <<"a">>, <<"b">> }
LoginPasswords == { << >>, PwA, PwB }

RegForm(u, p, c, e) ==
    [new_user |-> u, new_pass |-> p, confirm_pass |-> c, new_email |-> e]

RegisterForms ==
    { RegForm(<<"a">>, PwA, PwA, MailOk),
      RegForm(<<"b">>, PwA, PwA, MailOk),
      RegForm(<<"a">>, PwB, PwB, <<"x","@","y",".","z">>),
      RegForm(<< >>, PwA, PwA, MailOk),
      RegForm(<<"a">>, PwA, PwB, MailOk),
      RegForm(<<"a">>, <<"p","w">>, <<"p","w">>, MailOk),
      RegForm(<<"a">>, PwA, PwA, <<"a","b">>),
      RegForm(<<"a">>, PwA, PwA, <<"a","@","b">>),
      RegForm(<<"a">>, PwA, PwA, <<"a",".","b","@","c">>),
      RegForm(<<"a">>, PwA, PwA, <<"a","@","b","@","c",".","d">>),
      RegForm(<< >>, <<"p","w">>, <<"p","x">>, <<"a","b">>),
      RegForm(<<"a">>, <<"p","w">>, <<"p","x">>, <<"a","b">>),
      RegForm(<<"a">>, <<"p","w">>, <<"p","w">>, <<"a","b">>) }

HighForm ==
    [Age |-> 120, Pregnancies |-> 20, BMI10 |-> 700, Glucose |-> 300,
     BloodPressure |-> 200, LDL |-> 300, HDL |-> 0, Triglycerides |-> 1000,
     WHR100 |-> 200, family_history |-> "Oui", medications |-> "Oui"]

LowForm ==
    [Age |-> 0, Pregnancies |-> 0, BMI10 |-> 100, Glucose |-> 0,
     BloodPressure |-> 0, LDL |-> 0, HDL |-> 100, Triglycerides |-> 0,
     WHR100 |-> 0, family_history |-> "Non", medications |-> "Oui"]

AppForms == { DefaultForm, HighForm, LowForm }

\* The row of a CSV file that holds the numbers of form f, in the order of
\* required_columns; FamilyHistory and MedicationUse are 1 for "Oui".
CsvRow(f) ==
    << f.Age, f.Pregnancies, f.BMI10, f.Glucose, f.BloodPressure, f.LDL,
       f.HDL, f.Triglycerides, f.WHR100,
       IF f.family_history = "Oui" THEN 1 ELSE 0,
       IF f.medications = "Oui" THEN 1 ELSE 0 >>

CsvFile(columns, rows) == [present |-> TRUE, columns |-> columns, rows |-> rows]

Reverse(seq) == [i \in 1..Len(seq) |-> seq[Len(seq) + 1 - i]]

AppFiles ==
    { CsvFile(required_columns, << CsvRow(DefaultForm), CsvRow(HighForm) >>),
      CsvFile(required_columns, << CsvRow(LowForm) >>),
      CsvFile(help_columns, << CsvRow(DefaultForm) >>),
      CsvFile(SubSeq(required_columns, 1, 10), << SubSeq(CsvRow(DefaultForm), 1, 10) >>),
      CsvFile(required_columns \o << "Nom" >>, << CsvRow(DefaultForm) \o << 7 >> >>),
      CsvFile(Reverse(required_columns), << Reverse(CsvRow(DefaultForm)) >>),
      CsvFile(<< "Nom" >> \o help_columns, << << 7 >> \o CsvRow(DefaultForm) >>) }

(***************************************************************************)
(* Session actions                                                         *)
(***************************************************************************)
\* The login form of show_auth_page, submitted with (username, password).
LoginSubmit ==
    /\ view.page = "auth"
    /\ main(session).page = "auth"
    /\ \E username \in LoginUsernames, password \in LoginPasswords, fail \in BOOLEAN :
        /\ event' = [kind |-> "login", username |-> username,
                     password |-> password]
        /\ IF login_fields_missing(username, password)
           THEN /\ call' = NoCall
                /\ ret' = RetNone
                /\ UNCHANGED dbvars
                /\ Render(session)
                /\ PredictionTabs(session, form, uploaded_file, FALSE)
           ELSE /\ verify_user(username, password, fail)
                /\ call' = [op |-> "verify_user", username |-> username,
                            password |-> password, fail |-> fail]
                /\ LET user_data == verify_user_result(username, password, fail)
                       s == IF user_data.tag = "row"
                            THEN login_update(session, user_data)
                            ELSE session
                   IN  /\ Render(s)
                       /\ PredictionTabs(s, form, uploaded_file, FALSE)
    /\ UNCHANGED now

\* The registration form of show_auth_page, submitted with form f.
RegisterSubmit ==
    /\ view.page = "auth"
    /\ main(session).page = "auth"
    /\ \E f \in RegisterForms, fail \in BOOLEAN :
        /\ event' = [kind |-> "register", form |-> f,
                     message |-> register_check(f)]
        /\ IF register_check(f) # "ok"
           THEN /\ call' = NoCall
                /\ ret' = RetNone
                /\ UNCHANGED dbvars
           ELSE /\ add_user(f.new_user, f.new_pass, f.new_email, fail)
                /\ call' = [op |-> "add_user", username |-> f.new_user,
                            password |-> f.new_pass, email |-> f.new_email,
                            fail |-> fail]
    /\ Render(session)
    /\ PredictionTabs(session, form, uploaded_file, FALSE)
    /\ UNCHANGED now

\* A navigation button of the sidebar: current_page is set and st.rerun()
\* renders the page.
Navigate ==
    /\ view.sidebar
    /\ main(session).sidebar
    /\ \E page \in Pages, fail \in BOOLEAN :
        /\ event' = [kind |-> "nav", page |-> page]
        /\ PageQuery(set_page(session, page), fail)
        /\ Render(set_page(session, page))
        /\ PredictionTabs(set_page(session, page), form, uploaded_file, FALSE)
    /\ UNCHANGED now

\* The logout button of the sidebar: every key of the session state is
\* deleted and st.rerun() renders what main() renders on the empty state.
Logout ==
    /\ view.sidebar
    /\ main(session).sidebar
    /\ event' = [kind |-> "logout"]
    /\ PageQuery(delete_keys(session), FALSE)
    /\ Render(delete_keys(session))
    /\ PredictionTabs(delete_keys(session), form, uploaded_file, FALSE)
    /\ UNCHANGED now

\* A widget of the individual form is edited.
EditForm ==
    /\ view.page = "Prédiction"
    /\ main(session).page = "Prédiction"
    /\ \E f \in AppForms :
        /\ f # form
        /\ event' = [kind |-> "edit"]
        /\ PageQuery(session, FALSE)
        /\ Render(session)
        /\ PredictionTabs(session, f, uploaded_file, FALSE)
    /\ UNCHANGED now

\* File u is put into the uploader of tab 2 (NoFile: the file is removed).
Upload(u) ==
    /\ view.page = "Prédiction"
    /\ main(session).page = "Prédiction"
    /\ u # uploaded_file
    /\ event' = [kind |-> "upload"]
    /\ PageQuery(session, FALSE)
    /\ Render(session)
    /\ PredictionTabs(session, form, u, FALSE)
    /\ UNCHANGED now

UploadFile == \E u \in AppFiles \cup {NoFile} : Upload(u)

\* The button "Évaluer le risque" of tab 1.
EvaluerLeRisque ==
    /\ view.page = "Prédiction"
    /\ main(session).page = "Prédiction"
    /\ event' = [kind |-> "evaluate"]
    /\ PageQuery(session, FALSE)
    /\ Render(session)
    /\ PredictionTabs(session, form, uploaded_file, TRUE)
    /\ UNCHANGED now

\* Time passes between two calls of datetime.now().
Tick ==
    /\ now < MaxTime
    /\ now' = now + 1
    /\ call' = NoCall
    /\ ret' = RetNone
    /\ UNCHANGED <<users, analyses, user_seq, analysis_seq, session, view,
                   event, form, uploaded_file, evaluation, batch, evaluated,
                   model_file, script>>

vars == <<users, analyses, user_seq, analysis_seq, now, call, ret, session,
          view, event, form, uploaded_file, evaluation, batch, evaluated,
          model_file, script>>

\* The state of a first visit: the tables as _initialize_db creates them, an
\* empty session state, the authentication page on screen.
Init ==
    /\ users = << >>
    /\ analyses = << >>
    /\ user_seq = 0
    /\ analysis_seq = 0
    /\ now = 0
    /\ call = NoCall
    /\ ret = RetNone
    /\ session = EmptySession
    /\ view = [sidebar |-> main(EmptySession).sidebar,
               page |-> main(EmptySession).page, history |-> << >>]
    /\ event = [kind |-> "start"]
    /\ form = DefaultForm
    /\ uploaded_file = NoFile
    /\ evaluation = NoEvaluation
    /\ batch = NoBatch
    /\ evaluated = {}
    /\ model_file = GoodModelFile
    /\ script = run_script(GoodModelFile)

Next ==
    \/ LoginSubmit
    \/ RegisterSubmit
    \/ Navigate
    \/ Logout
    \/ EditForm
    \/ UploadFile
    \/ EvaluerLeRisque
    \/ Tick

\* The application of src/app1.py, one browser session.
Spec == Init /\ [][Next]_vars

(***************************************************************************)
(* The two database modules called directly, on one diabepredict.db        *)
(***************************************************************************)
appvars == <<session, view, event, form, uploaded_file, evaluation, batch,
             evaluated, model_file, script>>

DbAddUser ==
    \E u \in NewUsers, fail \in BOOLEAN :
        /\ add_user(u[1], u[2], u[3], fail)
        /\ call' = [op |-> "add_user", username |-> u[1], password |-> u[2],
                    email |-> u[3], fail |-> fail]
        /\ UNCHANGED <<now, appvars>>

DbAuthAddUser ==
    \E u \in NewUsers, fail \in BOOLEAN :
        /\ auth_add_user(u[1], u[2], u[3], fail)
        /\ call' = [op |-> "auth_add_user", username |-> u[1], password |-> u[2],
                    email |-> u[3], fail |-> fail]
        /\ UNCHANGED <<now, appvars>>

DbVerifyUser ==
    \E username \in Usernames, password \in Passwords, fail \in BOOLEAN :
        /\ verify_user(username, password, fail)
        /\ call' = [op |-> "verify_user", username |-> username,
                    password |-> password, fail |-> fail]
        /\ UNCHANGED <<now, appvars>>

DbAuthVerifyUser ==
    \E username \in Usernames, password \in Passwords, fail \in BOOLEAN :
        /\ auth_verify_user(username, password, fail)
        /\ call' = [op |-> "auth_verify_user", username |-> username,
                    password |-> password, fail |-> fail]
        /\ UNCHANGED <<now, appvars>>

DbAddAnalysis ==
    /\ Len(analyses) < MaxAnalyses
    /\ \E user_id \in UserIds, t \in AnalysisTypes, p \in Probabilities,
          fail \in BOOLEAN :
        /\ add_analysis(user_id, t, p, fail)
        /\ call' = [op |-> "add_analysis", user_id |-> user_id, fail |-> fail]
        /\ UNCHANGED <<now, appvars>>

DbAuthAddAnalysis ==
    /\ Len(analyses) < MaxAnalyses
    /\ \E user_id \in UserIds, t \in AnalysisTypes, p \in Probabilities,
          fail \in BOOLEAN :
        /\ auth_add_analysis(user_id, t, p, fail)
        /\ call' = [op |-> "auth_add_analysis", user_id |-> user_id,
                    fail |-> fail]
        /\ UNCHANGED <<now, appvars>>

DbGetUserAnalyses ==
    \E user_id \in UserIds, fail \in BOOLEAN :
        /\ get_user_analyses(user_id, fail)
        /\ call' = [op |-> "get_user_analyses", user_id |-> user_id,
                    fail |-> fail]
        /\ UNCHANGED <<now, appvars>>

DbAuthGetUserAnalyses ==
    \E user_id \in UserIds, fail \in BOOLEAN :
        /\ auth_get_user_analyses(user_id, fail)
        /\ call' = [op |-> "auth_get_user_analyses", user_id |-> user_id,
                    fail |-> fail]
        /\ UNCHANGED <<now, appvars>>

NextDB ==
    \/ DbAddUser
    \/ DbAuthAddUser
    \/ DbVerifyUser
    \/ DbAuthVerifyUser
    \/ DbAddAnalysis
    \/ DbAuthAddAnalysis
    \/ DbGetUserAnalyses
    \/ DbAuthGetUserAnalyses
    \/ Tick

\* Any sequence of calls of the functions of the two database modules.
SpecDB == Init /\ [][NextDB]_vars

(***************************************************************************)
(* The risk formulas over the ranges of the form: a logged-in user on the  *)
(* Prédiction page, the form filled with any of FormInputs.                *)
(***************************************************************************)
FormInputs ==
    [Age : {0, 45, 120}, Pregnancies : {0}, BMI10 : {100, 250, 700},
     Glucose : {0, 100, 300}, BloodPressure : {0, 200}, LDL : {0, 300},
     HDL : {0, 50, 100}, Triglycerides : {0, 150, 1000}, WHR100 : {0, 200},
     family_history : {"Non", "Oui"}, medications : {"Non", "Oui"}]

InitRisk ==
    /\ users = << [id |-> 1, username |-> <<"a">>, password |-> PwA,
                   email |-> MailOk, created_at |-> 0] >>
    /\ analyses = << >>
    /\ user_seq = 1
    /\ analysis_seq = 0
    /\ now = 0
    /\ call = NoCall
    /\ ret = RetNone
    /\ session = set_page(login_update(EmptySession, RetRow(1, <<"a">>)),
                          "Prédiction")
    /\ view = [sidebar |-> TRUE, page |-> "Prédiction", history |-> << >>]
    /\ event = [kind |-> "edit"]
    /\ form \in FormInputs
    /\ uploaded_file = NoFile
    /\ evaluation = NoEvaluation
    /\ batch = NoBatch
    /\ evaluated = {}
    /\ model_file = GoodModelFile
    /\ script = run_script(GoodModelFile)

\* A one-row file with the required columns, holding the numbers of the form.
UploadFormRow == Upload(CsvFile(required_columns, << CsvRow(form) >>))

NextRisk ==
    \/ EvaluerLeRisque
    \/ UploadFormRow

SpecRisk == InitRisk /\ [][NextRisk]_vars

(***************************************************************************)
(* The Historique page over a filled analyses table: two registered users, *)
(* rows written by add_analysis calls, one browser session.                *)
(***************************************************************************)
MaxHistory == 3

InitHistory ==
    /\ users = << [id |-> 1, username |-> <<"a">>, password |-> PwA,
                   email |-> MailOk, created_at |-> 0],
                  [id |-> 2, username |-> <<"b">>, password |-> PwA,
                   email |-> MailOk, created_at |-> 0] >>
    /\ analyses = << >>
    /\ user_seq = 2
    /\ analysis_seq = 0
    /\ now = 0
    /\ call = NoCall
    /\ ret = RetNone
    /\ session = EmptySession
    /\ view = [sidebar |-> main(EmptySession).sidebar,
               page |-> main(EmptySession).page, history |-> << >>]
    /\ event = [kind |-> "start"]
    /\ form = DefaultForm
    /\ uploaded_file = NoFile
    /\ evaluation = NoEvaluation
    /\ batch = NoBatch
    /\ evaluated = {}
    /\ model_file = GoodModelFile
    /\ script = run_script(GoodModelFile)

\* db_manager.add_analysis(user_id, ...) for a registered user.
HistAddAnalysis ==
    /\ Len(analyses) < MaxHistory
    /\ \E user_id \in UserIds, t \in AnalysisTypes, p \in Probabilities :
        /\ add_analysis(user_id, t, p, FALSE)
        /\ call' = [op |-> "add_analysis", user_id |-> user_id, fail |-> FALSE]
        /\ UNCHANGED <<now, appvars>>

NextHistory ==
    \/ LoginSubmit
    \/ Navigate
    \/ Logout
    \/ HistAddAnalysis
    \/ Tick

SpecHistory == InitHistory /\ [][NextHistory]_vars

(***************************************************************************)
(* The start of every script run: db_manager, predict_model, main(), with  *)
(* a model file that changes on disk between runs.  _initialize_db is      *)
(* CREATE TABLE IF NOT EXISTS and changes no table that exists.            *)
(***************************************************************************)
InitStartup ==
    /\ users = << >>
    /\ analyses = << >>
    /\ user_seq = 0
    /\ analysis_seq = 0
    /\ now = 0
    /\ call = NoCall
    /\ ret = RetNone
    /\ session = EmptySession
    /\ model_file \in ModelFiles
    /\ script = run_script(model_file)
    /\ view = IF load_model(model_file) = "loaded"
              THEN [sidebar |-> main(EmptySession).sidebar,
                    page |-> main(EmptySession).page, history |-> << >>]
              ELSE StoppedView
    /\ event = [kind |-> "start"]
    /\ form = DefaultForm
    /\ uploaded_file = NoFile
    /\ evaluation = NoEvaluation
    /\ batch = NoBatch
    /\ evaluated = {}

\* A run (a widget event, or "Rerun" of the Streamlit menu) that st.stop()
\* ends in _load_model: the handlers of main() are not reached, the session
\* state is kept, no widget is rendered and the widget state is dropped.
StoppedRun ==
    /\ load_model(model_file) = "stopped"
    /\ script' = run_script(model_file)
    /\ view' = StoppedView
    /\ event' = [kind |-> "stopped"]
    /\ call' = NoCall
    /\ ret' = RetNone
    /\ form' = DefaultForm
    /\ uploaded_file' = NoFile
    /\ evaluation' = NoEvaluation
    /\ batch' = NoBatch
    /\ UNCHANGED <<dbvars, now, session, evaluated, model_file>>

\* "Rerun" of the Streamlit menu: the script runs again on the session
\* state as it is.
Rerun ==
    /\ \E fail \in BOOLEAN : PageQuery(session, fail)
    /\ event' = [kind |-> "rerun"]
    /\ Render(session)
    /\ PredictionTabs(session, form, uploaded_file, FALSE)
    /\ UNCHANGED now

\* The model file is replaced, truncated or removed on disk.
ReplaceModelFile ==
    /\ \E file \in ModelFiles : file # model_file /\ model_file' = file
    /\ call' = NoCall
    /\ ret' = RetNone
    /\ UNCHANGED <<dbvars, now, session, view, event, form, uploaded_file,
                   evaluation, batch, evaluated, script>>

NextStartup ==
    \/ StoppedRun
    \/ Rerun
    \/ ReplaceModelFile
    \/ LoginSubmit
    \/ RegisterSubmit
    \/ Navigate
    \/ Logout

SpecStartup == InitStartup /\ [][NextStartup]_vars

(***************************************************************************)
(* The variant src/test/app2.py: one page, tab 1 the manual form, tab 2    *)
(* the file uploader.  The pickled classifier is not part of the           *)
(* repository: its answers are any of App2Predictions.  The run is taken   *)
(* to have passed model = joblib.load(model_path) and load_css.            *)
(***************************************************************************)
\* st.file_uploader(..., type=["csv", "xlsx", "xls", "json"])
uploader_types ==
    { <<"c","s","v">>, <<"x","l","s","x">>, <<"x","l","s">>,
      <<"j","s","o","n">> }

UpperCase == << "C", "J", "L", "N", "O", "S", "T", "V", "X" >>
LowerCase == << "c", "j", "l", "n", "o", "s", "t", "v", "x" >>

\* str.lower()
lower(text) ==
    [i \in 1..Len(text) |->
        IF \E k \in 1..Len(UpperCase) : UpperCase[k] = text[i]
        THEN LowerCase[CHOOSE k \in 1..Len(UpperCase) : UpperCase[k] = text[i]]
        ELSE text[i]]

\* name.split('.')[-1]: what follows the last '.', the whole name when it
\* holds none.
SplitDotLast(name) ==
    LET dots == { i \in 1..Len(name) : name[i] = "." }
        last == IF dots = {} THEN 0
                ELSE CHOOSE i \in dots : \A j \in dots : j <= i
    IN  SubSeq(name, last + 1, Len(name))

\* file_extension = uploaded_file.name.split('.')[-1].lower()
file_extension(file) == lower(SplitDotLast(file.name))

\* Whether the uploader takes the file: its extension is one of the types.
uploader_accepts(file) == file_extension(file) \in uploader_types

\* The if/elif chain on file_extension: the pandas reader that is called,
\* "none" for the else branch (st.error, df = None).
app2_reader(file) ==
    IF      file_extension(file) = <<"c","s","v">>     THEN "read_csv"
    ELSE IF file_extension(file) = <<"x","l","s","x">> THEN "read_excel"
    ELSE IF file_extension(file) = <<"j","s","o","n">> THEN "read_json"
    ELSE "none"

expected_cols ==
    << "Age", "Pregnancies", "BMI", "Glucose", "BloodPressure", "LDL", "HDL",
       "Triglycerides", "WHR", "FamilyHistory", "MedicationUse", "outlier" >>

\* missing_cols = [col for col in expected_cols if col not in df.columns]
missing_cols(df) ==
    SelectSeq(expected_cols, LAMBDA col : col \notin Range(df.columns))

\* for col in missing_cols: df[col] = 0, then df = df[expected_cols]: the
\* columns of expected_cols in their order, 0 where the file had none.
fill_and_reorder(df) ==
    [columns |-> expected_cols,
     rows |-> [r \in 1..Len(df.rows) |->
                 [i \in 1..Len(expected_cols) |->
                     IF expected_cols[i] \in Range(df.columns)
                     THEN Cell(df, expected_cols[i], r)
                     ELSE 0]]]

\* model.predict and model.predict_proba[:, 1] for one row: the class and
\* the probability in hundredths.
App2Predictions == { [prediction |-> 0, proba |-> 25],
                     [prediction |-> 1, proba |-> 75] }

\* The body of `if uploaded_file:` of tab 2: the set of the outcomes the
\* run can show.
App2Batch(file) ==
    IF ~file.present THEN {NoBatch}
    ELSE IF app2_reader(file) = "none"
    THEN {[status |-> "error", message |-> "Format de fichier non pris en charge"]}
    ELSE IF ~file.parses
    THEN {[status |-> "error",
           message |-> "Erreur lors de la lecture ou la prédiction"]}
    ELSE LET df == read_csv(file)
             d  == fill_and_reorder(df)
         IN  { [status |-> "scored", reader |-> app2_reader(file),
                warning |-> missing_cols(df),
                columns |-> d.columns \o << "Résultat", "Probabilité" >>,
                rows |-> d.rows,
                predictions |-> P] :
               P \in [1..Len(d.rows) -> App2Predictions] }

App2Names ==
    { <<"a",".","c","s","v">>, <<"A",".","C","S","V">>,
      <<"a",".","x","l","s","x">>, <<"a",".","x","l","s">>,
      <<"a",".","b",".","j","s","o","n">>, <<"a",".","t","x","t">> }

\* Tables with every expected column, without 'outlier', and with two of
\* the columns next to a column of their own.
App2Tables ==
    { [columns |-> expected_cols,
       rows |-> << CsvRow(DefaultForm) \o << 0 >>, CsvRow(HighForm) \o << 0 >> >>],
      [columns |-> required_columns, rows |-> << CsvRow(DefaultForm) >>],
      [columns |-> << "Glucose", "Nom", "Age" >>, rows |-> << << 100, 7, 45 >> >>] }

\* A file: its name, its table, and whether pandas reads it and the
\* classifier takes its cells without raising.
App2Files ==
    { [present |-> TRUE, name |-> n, columns |-> t.columns, rows |-> t.rows,
       parses |-> p] : n \in App2Names, t \in App2Tables, p \in BOOLEAN }

\* The button of tab 1: the class and the probability of the form's row, or
\* the message of the except branch.
App2Manual ==
    { [shown |-> TRUE, error |-> FALSE, prediction |-> q.prediction,
       proba |-> q.proba] : q \in App2Predictions }
    \cup { [shown |-> TRUE, error |-> TRUE] }

InitApp2 ==
    /\ users = << >>
    /\ analyses = << >>
    /\ user_seq = 0
    /\ analysis_seq = 0
    /\ now = 0
    /\ call = NoCall
    /\ ret = RetNone
    /\ session = EmptySession
    /\ view = [sidebar |-> FALSE, page |-> "app2", history |-> << >>]
    /\ event = [kind |-> "start"]
    /\ form = [Age |-> 30, Pregnancies |-> 2, BMI10 |-> 250, Glucose |-> 120,
               BloodPressure |-> 70, LDL |-> 100, HDL |-> 50,
               Triglycerides |-> 150, WHR100 |-> 85, FamilyHistory |-> 1,
               MedicationUse |-> 0, outlier |-> 0]
    /\ uploaded_file = NoFile
    /\ evaluation = NoEvaluation
    /\ batch = NoBatch
    /\ evaluated = {}
    /\ model_file = GoodModelFile
    /\ script = << "model = joblib.load(model_path)", "load_css", "st.tabs" >>

\* File u is dropped on the uploader of tab 2 (NoFile: the file is removed);
\* the uploader keeps it only if its extension is one of uploader_types.
App2Upload ==
    \E u \in App2Files \cup {NoFile} :
        LET kept == IF u.present /\ ~uploader_accepts(u) THEN uploaded_file
                    ELSE u
        IN  /\ u # uploaded_file
            /\ event' = [kind |-> "upload"]
            /\ uploaded_file' = kept
            /\ batch' \in App2Batch(kept)
            /\ evaluation' = NoEvaluation
            /\ UNCHANGED <<dbvars, now, call, ret, session, view, form,
                           evaluated, model_file, script>>

\* The button "Prédire" of tab 1; the run renders tab 2 again.
App2Predire ==
    /\ event' = [kind |-> "predict"]
    /\ evaluation' \in App2Manual
    /\ batch' \in App2Batch(uploaded_file)
    /\ UNCHANGED <<dbvars, now, call, ret, session, view, form, uploaded_file,
                   evaluated, model_file, script>>

NextApp2 ==
    \/ App2Upload
    \/ App2Predire

SpecApp2 == InitApp2 /\ [][NextApp2]_vars

(***************************************************************************)
(* Claims                                                                  *)
(***************************************************************************)
\* The product the individual formula clamps, times ScoreScale.
C1_Product(f) ==
    WeightedSum(f) * FamilyFactor(f.family_history)
                   * MedicationFactor(f.medications)

\* C1, as stated: the individual risk score is the weighted sum divided by 5,
\* clamped to [0, 0.95], and multiplied afterwards by 1.2 (family history)
\* and by 1.3 (medication).
C1_ClampThenMultiply ==
    evaluation.shown =>
        evaluation.risk_score =
            Min(Max(WeightedSum(evaluation.inputs), 0), Cap \div 100)
            * (FamilyFactor(evaluation.inputs.family_history)
               * MedicationFactor(evaluation.inputs.medications))

\* C1, amended: the individual risk score is the weighted sum divided by 5 and
\* multiplied by 1.2 (family history) and by 1.3 (medication), and this
\* product is what is clamped to [0, 0.95]: 0 when the product is negative,
\* 0.95 when it exceeds 0.95, the product itself otherwise.
C1_MultiplyThenClamp ==
    evaluation.shown =>
        LET x == C1_Product(evaluation.inputs)
        IN  /\ x < 0 => evaluation.risk_score = 0
            /\ x > Cap => evaluation.risk_score = Cap
            /\ (0 <= x /\ x <= Cap) => evaluation.risk_score = x

\* An evaluation with family history "Oui" whose weighted sum / 5 is below
\* 0.95 and whose product is above it: the two readings of C1 differ.
C1_Witness ==
    /\ evaluation.shown
    /\ evaluation.inputs.family_history = "Oui"
    /\ WeightedSum(evaluation.inputs) > 0
    /\ WeightedSum(evaluation.inputs) < Cap \div 100
    /\ C1_Product(evaluation.inputs) > Cap
    /\ evaluation.risk_score = Cap

\* C2: once a logged-in user has run an evaluation (individual or batch),
\* the analyses table holds a row of that user and the Historique page of
\* that user, whenever its query succeeds, lists at least one row.
C2_EvaluationIsPersisted ==
    ( /\ view.page = "Historique"
      /\ session["user_id"] \in evaluated
      /\ ~call.fail )
    => /\ \E i \in 1..Len(analyses) : analyses[i].user_id = session["user_id"]
       /\ view.history # << >>

\* Whether session state s passes the test of main().
C3_Authenticated(s) == "authenticated" \in DOMAIN s /\ s["authenticated"] = TRUE

\* C3: the sidebar or a page other than the authentication page is on screen
\* only when session_state['authenticated'] is True, the authentication page
\* alone is on screen otherwise, and a step makes 'authenticated' True only
\* if it is a login submission whose verify_user call returned a row.
C3_AuthenticationGate ==
    /\ [](/\ (view.sidebar \/ view.page # "auth") => C3_Authenticated(session)
          /\ ~C3_Authenticated(session) => (view.page = "auth" /\ ~view.sidebar))
    /\ [][(~C3_Authenticated(session) /\ C3_Authenticated(session'))
            => /\ event'.kind = "login"
               /\ call'.op = "verify_user"
               /\ ret'.tag = "row"
               /\ \E i \in 1..Len(users) :
                    /\ users[i].id = ret'.id
                    /\ users[i].username = event'.username
                    /\ users[i].password = event'.password]_vars

\* The second registered user has logged in and has the Historique page and
\* the sidebar on screen.
C3_Witness ==
    /\ view.page = "Historique"
    /\ view.sidebar
    /\ C3_Authenticated(session)
    /\ session["user_id"] = 2

\* C4: every score of the batch column 'Probabilité' lies in [0, 1].
C4_ProbabiliteInUnitInterval ==
    batch.status = "scored" =>
        \A r \in 1..Len(batch.Probabilite) :
            batch.Probabilite[r] >= 0 /\ batch.Probabilite[r] <= 100

\* Whether the users table holds a row with exactly this username and
\* exactly this password.
C5_RowExists(username, password) ==
    \E i \in 1..Len(users) :
        users[i].username = username /\ users[i].password = password

\* C5, as stated, for DatabaseManager.verify_user: it returns a non-empty
\* result (the id and the username) if and only if the users table holds a
\* row with that username and that password, and None otherwise.
C5_VerifyUserIff ==
    call.op = "verify_user" =>
        /\ ret.tag = "row" <=> C5_RowExists(call.username, call.password)
        /\ ret.tag # "row" => ret = RetNone

\* C5, amended: a verify_user call leaves both tables unchanged.  When its
\* SQLite query does not fail it returns the id (with the username in
\* DatabaseManager) of the row with that username and that password if the
\* users table holds one, and None if it holds none.  When the query fails,
\* DatabaseManager.verify_user returns None and verify_user of auth/auth.py
\* raises, whatever the table holds.
C5_VerifyUser ==
    [][call'.op \in {"verify_user", "auth_verify_user"} =>
        /\ users' = users
        /\ analyses' = analyses
        /\ ~call'.fail =>
            /\ ret'.tag \in {"row", "id"} <=>
                  C5_RowExists(call'.username, call'.password)
            /\ ret'.tag \notin {"row", "id"} => ret' = RetNone
            /\ ret'.tag \in {"row", "id"} =>
                  \E i \in 1..Len(users) :
                      /\ users[i].id = ret'.id
                      /\ users[i].username = call'.username
                      /\ users[i].password = call'.password
            /\ ret'.tag = "row" => /\ call'.op = "verify_user"
                                   /\ ret'.username = call'.username
            /\ ret'.tag = "id" => call'.op = "auth_verify_user"
        /\ call'.fail =>
            ret' = IF call'.op = "verify_user" THEN RetNone ELSE RetRaised]_vars

\* A call with the right username and a wrong password returned None while
\* the table holds that username.
C5_Witness ==
    /\ call.op = "verify_user"
    /\ ~call.fail
    /\ ret = RetNone
    /\ \E i \in 1..Len(users) :
        users[i].username = call.username /\ users[i].password # call.password

\* C6: no two rows of the users table have the same username, and no two
\* have the same id.
C6_UniqueUsers ==
    \A i, j \in 1..Len(users) :
        i # j => /\ users[i].username # users[j].username
                 /\ users[i].id # users[j].id

\* Two users are stored and add_user of auth/auth.py has just refused a
\* third call, for a username that is taken.
C6_Witness ==
    /\ Len(users) = 2
    /\ call.op = "auth_add_user"
    /\ ret = RetFalse

\* C7: DatabaseManager.add_user with a username that already exists returns
\* False, does not raise, and leaves the users table exactly as it was.
C7_DuplicateUserRefused ==
    [][(call'.op = "add_user"
        /\ \E i \in 1..Len(users) : users[i].username = call'.username)
       => /\ ret' = RetFalse
          /\ users' = users
          /\ user_seq' = user_seq]_vars

\* add_user has just been refused for a stored username, the call giving
\* another password and another email than the stored row, at a later time.
C7_Witness ==
    /\ call.op = "add_user"
    /\ ~call.fail
    /\ ret = RetFalse
    /\ \E i \in 1..Len(users) :
        /\ users[i].username = call.username
        /\ users[i].password # call.password
        /\ users[i].email # call.email
        /\ users[i].created_at < now

\* C8: every row of the analyses table has the id of a users row as user_id.
C8_ReferentialIntegrity ==
    \A i \in 1..Len(analyses) :
        \E j \in 1..Len(users) : users[j].id = analyses[i].user_id

\* C9: after a successful add_user, the password column of the new row does
\* not hold the password that was passed in.
C9_PasswordNotPlaintext ==
    (call.op \in {"add_user", "auth_add_user"} /\ ret = RetTrue) =>
        \A i \in 1..Len(users) :
            users[i].username = call.username =>
                users[i].password # call.password

\* C10: a file whose header is the list of names of the uploader's help text
\* is accepted, its columns come out under the names of required_columns,
\* and every row has a score.
C10_HelpColumnsAccepted ==
    (uploaded_file.present /\ uploaded_file.columns = help_columns) =>
        /\ batch.status = "scored"
        /\ SubSeq(batch.columns, 1, Len(required_columns)) = required_columns
        /\ Len(batch.Probabilite) = Len(uploaded_file.rows)

\* C11: a file is scored only if its columns are exactly the eleven names of
\* required_columns, in that order: a file holding them in another order, or
\* next to additional columns, is not scored.
C11_ExactColumnsOnly ==
    (uploaded_file.present /\ uploaded_file.columns # required_columns) =>
        batch.status # "scored"

\* C12: a score the scale of the documentation page puts in "60-80% : Risque
\* élevé" (every score between 60% and 70% among them) is presented as a
\* high risk, in the recommendation of the individual result and in the
\* batch column 'Niveau de risque'.
C12_DocumentedScale ==
    /\ evaluation.shown =>
         (echelle_de_risque(evaluation.risk_score) = "Risque élevé"
             => evaluation.recommendation = "eleve")
    /\ batch.status = "scored" =>
         \A r \in 1..Len(batch.Probabilite) :
             echelle_de_risque(batch.Probabilite[r] * (ScoreScale \div 100))
                 = "Risque élevé"
             => batch.Niveau[r] = "Élevé"

\* C13: the logout click leaves a session state without any key and the
\* authentication page alone on screen; a session state that is not
\* authenticated renders the authentication page alone; and the screen
\* leaves the authentication page only by a login submission for which
\* verify_user returned a row.
C13_Logout ==
    /\ [][event'.kind = "logout" =>
            /\ DOMAIN session' = {}
            /\ view' = [sidebar |-> FALSE, page |-> "auth", history |-> << >>]]_vars
    /\ []((~C3_Authenticated(session)) => (view.page = "auth" /\ ~view.sidebar))
    /\ [][(view.page = "auth" /\ view'.page # "auth") =>
            /\ event'.kind = "login"
            /\ call'.op = "verify_user"
            /\ ret'.tag = "row"
            /\ C5_RowExists(event'.username, event'.password)]_vars

\* The second user has logged out after an evaluation: the session state is
\* empty and the authentication page is on screen.
C13_Witness ==
    /\ event.kind = "logout"
    /\ DOMAIN session = {}
    /\ view.page = "auth"
    /\ 2 \in evaluated

\* Whether rows are exactly the analyses rows of user u, each once, with
\* created_at never increasing from one row to the next.
C14_Exact(rows, u) ==
    /\ \A i \in 1..Len(rows) : rows[i].user_id = u
    /\ \A k \in 1..Len(analyses) :
          analyses[k].user_id = u =>
              \E i \in 1..Len(rows) :
                  /\ rows[i] = analyses[k]
                  /\ \A j \in 1..Len(rows) : rows[j] = analyses[k] => j = i
    /\ \A i \in 1..Len(rows) : \E k \in 1..Len(analyses) : rows[i] = analyses[k]
    /\ \A i, j \in 1..Len(rows) :
          i < j => rows[i].created_at >= rows[j].created_at

\* C14, as stated: get_user_analyses(u) modifies no table and returns exactly
\* the analyses rows whose user_id is u, newest first.
C14_HistoryExact ==
    [][call'.op = "get_user_analyses" =>
        /\ dbvars' = dbvars
        /\ ret'.tag = "DataFrame"
        /\ C14_Exact(ret'.rows, call'.user_id)]_vars

\* C14, amended: get_user_analyses(u) modifies no table; when its query does
\* not fail it returns exactly the analyses rows whose user_id is u, newest
\* first, and when the query fails it returns an empty table.  The
\* Historique page is rendered for an authenticated session only and lists
\* rows of session_state['user_id'] only.
C14_History ==
    /\ [][call'.op = "get_user_analyses" =>
            /\ dbvars' = dbvars
            /\ ret'.tag = "DataFrame"
            /\ (~call'.fail) => C14_Exact(ret'.rows, call'.user_id)
            /\ call'.fail => ret'.rows = << >>]_vars
    /\ [][view'.page = "Historique" =>
            (call'.op = "get_user_analyses" =>
                /\ call'.user_id = session'["user_id"]
                /\ view'.history = ret'.rows)]_vars
    /\ [](view.page = "Historique" =>
            /\ C3_Authenticated(session)
            /\ \A i \in 1..Len(view.history) :
                  view.history[i].user_id = session["user_id"])

\* User 1 is on the Historique page, which lists two rows of user 1, the
\* newer one first, while the table also holds a row of user 2.
C14_Witness ==
    /\ view.page = "Historique"
    /\ session["user_id"] = 1
    /\ Len(view.history) = 2
    /\ view.history[1].created_at > view.history[2].created_at
    /\ \E k \in 1..Len(analyses) : analyses[k].user_id = 2

\* C15: a call of DatabaseManager.add_user, add_analysis, verify_user or
\* get_user_analyses whose SQLite call fails does not raise, returns False
\* (add_user, add_analysis), None (verify_user) or an empty table
\* (get_user_analyses), and leaves the users and analyses tables unchanged.
C15_FailuresAreValues ==
    [][(call'.op \in {"add_user", "add_analysis", "verify_user",
                      "get_user_analyses"} /\ call'.fail) =>
        /\ ret' # RetRaised
        /\ call'.op \in {"add_user", "add_analysis"} => ret' = RetFalse
        /\ call'.op = "verify_user" => ret' = RetNone
        /\ call'.op = "get_user_analyses" => ret' = RetFrame(<< >>)
        /\ users' = users
        /\ analyses' = analyses]_vars

\* add_user has failed for a username that is not taken, on a database that
\* holds a user and an analysis: False came back and neither table changed.
C15_Witness ==
    /\ call.op = "add_user"
    /\ call.fail
    /\ ret = RetFalse
    /\ Len(users) = 1
    /\ Len(analyses) = 1
    /\ \A i \in 1..Len(users) : users[i].username # call.username

\* C16: for every individual form within the widget ranges, the displayed
\* risk_score, the two multipliers included, lies in [0, 0.95], and the
\* displayed percentage lies in [0, 95].
C16_ScoreInRange ==
    evaluation.shown =>
        /\ evaluation.risk_score >= 0
        /\ evaluation.risk_score * 100 <= 95 * ScoreScale
        /\ evaluation.risk_percentage >= 0
        /\ evaluation.risk_percentage <= 950

\* An evaluation with family history and medication whose weighted sum / 5
\* is already above 0.95: the score shown is 0.95 and the percentage 95.0.
C16_Witness ==
    /\ evaluation.shown
    /\ evaluation.inputs.family_history = "Oui"
    /\ evaluation.inputs.medications = "Oui"
    /\ WeightedSum(evaluation.inputs) * 100 > Cap
    /\ evaluation.risk_score = Cap
    /\ evaluation.risk_percentage = 950

\* Whether the file is missing, smaller than 100 bytes or not deserializable.
C17_BadModelFile(file) ==
    \/ ~file.exists
    \/ file.size < 100
    \/ ~file.unpickles

\* C17: every run initialises the database, then loads the model file, then
\* calls main(), in this order; a run that finds the model file missing,
\* smaller than 100 bytes or not deserializable stops before main(): it
\* renders no page and no sidebar, not even the authentication page, handles
\* no widget event (no database call, session state and tables unchanged);
\* a run that finds a good file reaches main().
C17_ModelLoadGate ==
    /\ [](/\ Len(script) = 3
          /\ script[1] = "db_manager = DatabaseManager()"
          /\ script[2] = "predict_model = DiabePredictModel()"
          /\ script[3] \in {"main()", "st.stop()"}
          /\ script[3] = "st.stop()" <=> view = StoppedView
          /\ script[3] = "main()" <=> view.page \in Pages \cup {"auth"})
    /\ [][model_file' = model_file =>
            /\ C17_BadModelFile(model_file) =>
                  /\ script'[3] = "st.stop()"
                  /\ view' = StoppedView
                  /\ session' = session
                  /\ dbvars' = dbvars
                  /\ call' = NoCall
            /\ (~C17_BadModelFile(model_file)) =>
                  /\ script'[3] = "main()"
                  /\ view'.page = main(session').page]_vars

\* A logged-in user's run has been stopped by a model file that joblib.load
\* would deserialize but that is smaller than 100 bytes.
C17_Witness ==
    /\ view = StoppedView
    /\ script[3] = "st.stop()"
    /\ C3_Authenticated(session)
    /\ model_file.exists
    /\ model_file.size < 100
    /\ model_file.unpickles

\* C18: whenever session_state['authenticated'] is True, session_state holds
\* user_id and username, and they are the id and the username of one and the
\* same row of the users table; the step that makes 'authenticated' True is
\* a login whose verify_user call returned that row, it sets user_id,
\* username, authenticated and current_page = "Accueil" together, and the
\* page it renders is Accueil.
C18_SessionIdentity ==
    /\ [](C3_Authenticated(session) =>
            /\ {"user_id", "username"} \subseteq DOMAIN session
            /\ \E i \in 1..Len(users) :
                  /\ users[i].id = session["user_id"]
                  /\ users[i].username = session["username"])
    /\ [][(~C3_Authenticated(session) /\ C3_Authenticated(session')) =>
            /\ call'.op = "verify_user"
            /\ ret'.tag = "row"
            /\ session'["user_id"] = ret'.id
            /\ session'["username"] = ret'.username
            /\ session'["username"] = event'.username
            /\ "current_page" \in DOMAIN session'
            /\ session'["current_page"] = "Accueil"
            /\ view'.page = "Accueil"
            /\ view'.sidebar]_vars

\* The second registered user has just logged in: the session state holds
\* id 2 with that user's name and the Accueil page is on screen.
C18_Witness ==
    /\ event.kind = "login"
    /\ C3_Authenticated(session)
    /\ session["user_id"] = 2
    /\ session["username"] = <<"b">>
    /\ view.page = "Accueil"
    /\ Len(users) = 2

\* C19: a login submission with an empty username or an empty password makes
\* no verify_user call and does not authenticate; a login submission that
\* verify_user rejects leaves the session state as it was; neither changes
\* a table.
C19_FailedLogin ==
    [][event'.kind = "login" =>
        /\ (event'.username = << >> \/ event'.password = << >>) =>
              /\ call' = NoCall
              /\ session' = session
              /\ ~C3_Authenticated(session')
              /\ dbvars' = dbvars
        /\ (call'.op = "verify_user" /\ ret' = RetNone) =>
              /\ session' = session
              /\ DOMAIN session' \cap {"authenticated", "user_id", "username",
                                       "current_page"} = {}
              /\ view'.page = "auth"
              /\ dbvars' = dbvars
        /\ call'.op = "verify_user" =>
              (event'.username # << >> /\ event'.password # << >>)]_vars

\* A login with the name of a registered user and a password that is not
\* that user's has been rejected.
C19_Witness ==
    /\ event.kind = "login"
    /\ call.op = "verify_user"
    /\ ~call.fail
    /\ ret = RetNone
    /\ \E i \in 1..Len(users) :
          users[i].username = event.username /\ users[i].password # event.password
    /\ view.page = "auth"

\* The four conditions of C20 on a registration form.
C20_AllFilled(f) ==
    Len(f.new_user) > 0 /\ Len(f.new_pass) > 0 /\ Len(f.confirm_pass) > 0
    /\ Len(f.new_email) > 0

C20_PasswordsEqual(f) == f.new_pass = f.confirm_pass

C20_PasswordLongEnough(f) == Len(f.new_pass) >= 6

\* The email holds an "@", and a "." after its first "@" with no other "@"
\* between the two.
C20_EmailValid(f) ==
    \E i \in 1..Len(f.new_email) :
        /\ f.new_email[i] = "@"
        /\ \A k \in 1..(i - 1) : f.new_email[k] # "@"
        /\ \E j \in (i + 1)..Len(f.new_email) :
              /\ f.new_email[j] = "."
              /\ \A k \in (i + 1)..(j - 1) : f.new_email[k] # "@"

\* C20: a registration submission calls add_user only when all four fields
\* are filled, the two passwords are equal, the password has at least 6
\* characters and the email is valid, and then with the fields of the form;
\* the tests run in this order and the first that fails names the error
\* shown; a submission that fails a test leaves the users table unchanged.
C20_RegistrationChecks ==
    [][event'.kind = "register" =>
        LET f == event'.form
        IN  /\ call'.op = "add_user" =>
                  /\ C20_AllFilled(f)
                  /\ C20_PasswordsEqual(f)
                  /\ C20_PasswordLongEnough(f)
                  /\ C20_EmailValid(f)
                  /\ call'.username = f.new_user
                  /\ call'.password = f.new_pass
                  /\ call'.email = f.new_email
            /\ event'.message =
                  IF ~C20_AllFilled(f)
                  THEN "Veuillez remplir tous les champs"
                  ELSE IF ~C20_PasswordsEqual(f)
                  THEN "Les mots de passe ne correspondent pas"
                  ELSE IF ~C20_PasswordLongEnough(f)
                  THEN "Le mot de passe doit contenir au moins 6 caractères"
                  ELSE IF ~C20_EmailValid(f)
                  THEN "Veuillez entrer une adresse email valide"
                  ELSE "ok"
            /\ event'.message # "ok" =>
                  (users' = users /\ user_seq' = user_seq /\ call' = NoCall)]_vars

\* A submission with two different passwords that are also too short and
\* with an email without "@" has been refused for the passwords' difference,
\* on a database that holds a user.
C20_Witness ==
    /\ event.kind = "register"
    /\ C20_AllFilled(event.form)
    /\ ~C20_PasswordsEqual(event.form)
    /\ ~C20_PasswordLongEnough(event.form)
    /\ ~C20_EmailValid(event.form)
    /\ event.message = "Les mots de passe ne correspondent pas"
    /\ call = NoCall
    /\ Len(users) = 1

\* C21: in test/app2.py a file the uploader holds, of any accepted type
\* (csv, xlsx, xls, json), that pandas reads is loaded and scored; the
\* message 'Format de fichier non pris en charge' is never shown for it; and
\* the columns it lacks are named in a warning and filled with 0.
C21_AcceptedTypesScored ==
    uploaded_file.present =>
        /\ ~(batch.status = "error"
             /\ batch.message = "Format de fichier non pris en charge")
        /\ uploaded_file.parses =>
              /\ batch.status = "scored"
              /\ Len(batch.predictions) = Len(uploaded_file.rows)
              /\ \A i \in 1..Len(expected_cols) :
                    expected_cols[i] \notin Range(uploaded_file.columns) =>
                        /\ expected_cols[i] \in Range(batch.warning)
                        /\ \A r \in 1..Len(batch.rows) : batch.rows[r][i] = 0

====
